---------------------------- MODULE Spec2Model ----------------------------
(***************************************************************************)
(* Verification model of simply-learn: the per-visitor rate limiter        *)
(* (lib/rateLimit, app/api/limits, middleware), the progress stream         *)
(* clients (useSimplificationProgress, SimplifiedTab) and the task-status   *)
(* stream of SummaryTab (trackTaskStatus).                                  *)
(***************************************************************************)
EXTENDS Integers, Sequences, FiniteSets, TLC

(***************************************************************************)
(* The state.  Each part of the model has its own variables; an action of  *)
(* one part leaves the variables of the other parts unchanged.             *)
(***************************************************************************)

\* Part 1: the rate limiter
VARIABLES
    now,        \* Date.now(), in milliseconds
    hdr,        \* the proxy headers of this browser's requests: [xff, xreal]
    jar,        \* the browser's visitor_id cookie (NoCookie when absent)
    nextTok,    \* the next value crypto.randomUUID() returns
    store,      \* the shared store: identifier -> [count, reset]
    storeUp,    \* whether the shared store can be reached
    pc,         \* per slot: "idle" or "sent" (a request in flight)
    req,        \* per slot: the cookie the request in flight carries
    sentCount,  \* requests sent so far
    advances,   \* clock advances so far
    tally,      \* history: <<identity carried, window reset>> -> [calls, admitted]
    last,       \* history: the last GET /api/limits handled, and its response
    mw          \* the last request handled by the middleware

rlVars == <<now, hdr, jar, nextTok, store, storeUp, pc, req, sentCount,
            advances, tally, last, mw>>

\* Part 2: the progress stream clients
VARIABLES
    client,     \* which component is mounted: "tab" (SimplifiedTab) or "hook"
    mounted,    \* the component is mounted
    fileId,     \* the fileId prop
    nsub,       \* runs of the effect so far; the last one is the current one
    subFile,    \* per subscription: the fileId of its closure
    es,         \* per subscription: its eventSource: "none", "connecting", "open", "closed"
    timer,      \* per subscription: ms left of its pending setTimeout, or NoTimer
    torn,       \* per subscription: its cleanup has run
    tab,        \* SimplifiedTab's state
    hook,       \* useSimplificationProgress's state
    drops,      \* transport errors so far
    received,   \* history: the chunks received by the subscription, merged by index
    sawNotFound,\* history: a not_found message was handled
    termSeen,   \* history, per subscription: a message with completed or error was handled
    origin      \* history: the file whose stream set the chunks and the progress shown

scVars == <<client, mounted, fileId, nsub, subFile, es, timer, torn, tab, hook,
            drops, received, sawNotFound, termSeen, origin>>

\* Part 3: the job behind the progress stream
VARIABLES
    job,        \* the task store's record of the job
    unbroken    \* history: the state of a client whose connection never dropped

liveVars == <<job, unbroken>>

\* Part 4: SummaryTab
VARIABLES
    swr,        \* useSWR(fileId, getSummary): "loading", "data" or "nodata"
    sum,        \* SummaryTab's state
    call,       \* summarizeFile(fileId): "none" or "pending"
    tsrc,       \* the eventSource of trackTaskStatus: "none", "open", "closed"
    nextTask,   \* the task_id the server hands out next
    failHeard   \* history: the task's stream carried an error or FAILURE

sumVars == <<swr, sum, call, tsrc, nextTask, failHeard>>

\* Part 5: the chunker
VARIABLES
    text,       \* the content given to splitContentIntoChunks (a sequence of characters)
    maxSize,    \* its maxChunkSize
    returned,   \* the chunks it returned
    chunked,    \* it has returned
    score,      \* what assessReadabilityLevel returned for text, once called
    syllables   \* what countSyllables returned for text, -1 before the call

chVars == <<text, maxSize, returned, chunked, score, syllables>>

\* Part 6: the content submission handlers
VARIABLES
    submission, \* the request: route, JSON body, and the state of the collaborators
    answer,     \* the response of the handler, or NoAnswer
    effects     \* what the handler did before it answered, in order

postVars == <<submission, answer, effects>>

\* Part 7: the processing pipeline and its job in the task store
VARIABLES
    jobState,    \* the job as the task store holds it
    stage,       \* the pipeline's state for the job
    calls,       \* per chunk index: the external call's status and attempts
    markErrors,  \* how many times mark_error was called for the job
    recordCalls, \* how many times record_chunk was called for the job
    kept         \* the indices record_chunk was called with

pipeVars == <<jobState, stage, calls, markErrors, recordCalls, kept>>

\* Part 8: the progress stream server
VARIABLES
    srv,        \* per subscription: the server's side of its connection
    pushedTerm  \* per subscription: a snapshot with completed or error was pushed on it

srvVars == <<srv, pushedTerm>>

\* Part 9: LimitedActionButton
VARIABLES
    btn,        \* the component's state: isLoading, limitInfo, isLimited
    issuer,     \* per request slot: what sent the request: "poll", "click" or "none"
    acted       \* history: onClick, the gated action, has been called

btnVars == <<btn, issuer, acted>>

vars == <<rlVars, scVars, liveVars, sumVars, chVars, postVars, pipeVars, srvVars, btnVars>>

(***************************************************************************)
(* Part 1.  Rate limiter                                                   *)
(***************************************************************************)

\* ---- bounds of the model ----
MaxCalls == 6          \* GET /api/limits requests sent in one behaviour
MaxInFlight == 2       \* requests that may be in flight at the same time
MaxAdvances == 2       \* number of times the clock is advanced

\* ---- program constants ----
LIMIT == 5                   \* Ratelimit.slidingWindow(5, "1 d")
WINDOW_MS == 86400000        \* "1 d" in milliseconds
MS_PER_SEC == 1000           \* (reset - Date.now()) / 1000

RATE_LIMITED_PATHS == {"/api/files/upload"}

NoCookie == 0
NoWindow == [count |-> 0, reset |-> 0]
NoCall == [kind |-> "none"]
NoRequest == [path |-> "", over |-> FALSE, status |-> 0, jobCreated |-> FALSE]

Slots == 1..MaxInFlight
Paths == {"/api/files/upload", "/dashboard"}
\* the instants at which the clock is read: the first and the last millisecond
\* of each day (0, W-1, W, 2W-1, 2W, ...)
Instant(i) == (i \div 2) * WINDOW_MS + (i % 2) * (WINDOW_MS - 1)

Min(a, b) == IF a <= b THEN a ELSE b
Max(a, b) == IF a >= b THEN a ELSE b

\* request.headers.get("x-forwarded-for") || request.headers.get("x-real-ip") || "127.0.0.1"
ClientIp(h) ==
    IF h.xff # "" THEN h.xff
    ELSE IF h.xreal # "" THEN h.xreal
    ELSE "127.0.0.1"

\* getVisitorId: `${visitorId}:${ip}`, visitorId the cookie or a new UUID
getVisitorId(cookie, fresh, h) ==
    LET visitorId == IF cookie = NoCookie THEN fresh ELSE cookie
    IN  <<visitorId, ClientIp(h)>>

\* the window of an identifier in the shared store
Window(k) == IF k \in DOMAIN store THEN store[k] ELSE NoWindow

\* limiter.limit(identifier), the store's part: one atomic step.  No window or
\* an expired one: a new window with count 1.  Otherwise count + 1.
SlidingWindow(w, t) ==
    LET fresh == w.count = 0 \/ t >= w.reset
    IN  [count |-> IF fresh THEN 1 ELSE w.count + 1,
         reset |-> IF fresh THEN t + WINDOW_MS ELSE w.reset]

\* A bug the limiter's configuration could have: one admission too many.
limiter_OffByOne(w) ==
    [success |-> w.count <= LIMIT + 1,
     limit |-> LIMIT,
     remaining |-> Max(0, LIMIT - w.count),
     reset |-> w.reset]

\* limiter.limit(identifier), the answer: { success, limit, remaining, reset }
limiter(w) ==
    [success |-> w.count <= LIMIT,
     limit |-> LIMIT,
     remaining |-> Max(0, LIMIT - w.count),
     reset |-> w.reset]

\* GET /api/limits, the try branch: the body built from the limiter's answer r
\* at Date.now() = t
LimitsBody(r, t) ==
    [status |-> 200, success |-> TRUE, total |-> r.limit,
     remaining |-> r.remaining, used |-> r.limit - r.remaining,
     resetIn |-> (r.reset - t) \div MS_PER_SEC]

\* GET /api/limits, the catch branch
LimitsError == [status |-> 500, success |-> FALSE]

\* history: the identity a request carries (its own cookie and origin; a
\* request without a cookie carries the identity minted for it)
Carried(cookie, fresh, h) ==
    <<IF cookie = NoCookie THEN fresh ELSE cookie, ClientIp(h)>>

TallyOf(key) == IF key \in DOMAIN tally THEN tally[key] ELSE [calls |-> 0, admitted |-> 0]

RLInit ==
    /\ now = 0
    /\ hdr \in [xff : {"", "203.0.113.7"}, xreal : {"", "198.51.100.9"}]
    /\ jar = NoCookie
    /\ nextTok = 1
    /\ store = [k \in {} |-> NoWindow]
    /\ storeUp = TRUE
    /\ pc = [s \in Slots |-> "idle"]
    /\ req = [s \in Slots |-> NoCookie]
    /\ sentCount = 0
    /\ advances = 0
    /\ tally = [k \in {} |-> [calls |-> 0, admitted |-> 0]]
    /\ last = NoCall
    /\ mw = NoRequest

\* the browser sends GET /api/limits with the cookie it holds
Send(s) ==
    /\ pc[s] = "idle"
    /\ \A r \in Slots : r < s => pc[r] # "idle"
    /\ sentCount < MaxCalls
    /\ pc' = [pc EXCEPT ![s] = "sent"]
    /\ req' = [req EXCEPT ![s] = jar]
    /\ sentCount' = sentCount + 1
    /\ UNCHANGED <<scVars, liveVars, sumVars, chVars, postVars, pipeVars, srvVars>>
    /\ UNCHANGED <<now, hdr, jar, nextTok, store, storeUp, advances, tally, last, mw>>

\* A status check the code could have had: the window is read, not counted in.
checkRateLimit_Peek(cookie, fresh, h, t) ==
    LET id == getVisitorId(cookie, fresh, h)
        w == Window(id)
    IN  [id |-> id, window |-> w, result |-> limiter(w)]

\* checkRateLimit(request): getVisitorId, then limiter.limit(identifier) on
\* the store as it is at time t
checkRateLimit(cookie, fresh, h, t) ==
    LET id == getVisitorId(cookie, fresh, h)
        w == SlidingWindow(Window(id), t)
    IN  [id |-> id, window |-> w, result |-> limiter(w)]

\* GET /api/limits, handled while the store can be reached.  The browser
\* stores the cookie getVisitorId has set.
GET(s) ==
    /\ pc[s] = "sent"
    /\ storeUp
    /\ LET c == checkRateLimit(req[s], nextTok, hdr, now)
           key == <<Carried(req[s], nextTok, hdr), c.result.reset>>
           t == TallyOf(key)
       IN  /\ store' = [k \in DOMAIN store \cup {c.id} |->
                           IF k = c.id THEN c.window ELSE store[k]]
           /\ tally' = [k \in DOMAIN tally \cup {key} |->
                           IF k = key
                           THEN [calls |-> t.calls + 1,
                                 admitted |-> t.admitted + (IF c.result.success THEN 1 ELSE 0)]
                           ELSE tally[k]]
           /\ last' = [kind |-> "ok", slot |-> s, prior |-> t.admitted,
                       result |-> c.result, response |-> LimitsBody(c.result, now)]
    /\ jar' = IF req[s] = NoCookie THEN nextTok ELSE jar
    /\ nextTok' = IF req[s] = NoCookie THEN nextTok + 1 ELSE nextTok
    /\ pc' = [pc EXCEPT ![s] = "idle"]
    /\ req' = [req EXCEPT ![s] = NoCookie]
    /\ UNCHANGED <<scVars, liveVars, sumVars, chVars, postVars, pipeVars, srvVars>>
    /\ UNCHANGED <<now, hdr, storeUp, sentCount, advances, mw>>

\* GET /api/limits, handled while the store cannot be reached: limiter.limit
\* throws after getVisitorId has set the cookie, and the catch branch answers
GETThrows(s) ==
    /\ pc[s] = "sent"
    /\ ~storeUp
    /\ last' = [kind |-> "thrown", slot |-> s, response |-> LimitsError]
    /\ jar' = IF req[s] = NoCookie THEN nextTok ELSE jar
    /\ nextTok' = IF req[s] = NoCookie THEN nextTok + 1 ELSE nextTok
    /\ pc' = [pc EXCEPT ![s] = "idle"]
    /\ req' = [req EXCEPT ![s] = NoCookie]
    /\ UNCHANGED <<scVars, liveVars, sumVars, chVars, postVars, pipeVars, srvVars>>
    /\ UNCHANGED <<now, hdr, store, storeUp, sentCount, advances, tally, mw>>

\* the shared store becomes unreachable, or reachable again
StoreFlips ==
    /\ storeUp' = ~storeUp
    /\ UNCHANGED <<scVars, liveVars, sumVars, chVars, postVars, pipeVars, srvVars>>
    /\ UNCHANGED <<now, hdr, jar, nextTok, store, pc, req, sentCount, advances,
                   tally, last, mw>>

\* time passes, to the next instant at which the clock is read
Advance ==
    /\ advances < MaxAdvances
    /\ now' = Instant(advances + 1)
    /\ advances' = advances + 1
    /\ UNCHANGED <<scVars, liveVars, sumVars, chVars, postVars, pipeVars, srvVars>>
    /\ UNCHANGED <<hdr, jar, nextTok, store, storeUp, pc, req, sentCount, tally,
                   last, mw>>

\* the identity of the browser's next request is over its limit
OverLimit ==
    /\ jar # NoCookie
    /\ LET w == Window(<<jar, ClientIp(hdr)>>)
       IN  w.count >= LIMIT /\ now < w.reset

\* middleware(request): return await updateSession(request).  updateSession
\* either lets the request through or redirects to the login page (307); a
\* request that is let through to the upload path starts a job.
middleware(path, outcome) ==
    /\ mw' = [path |-> path,
              over |-> OverLimit,
              status |-> IF outcome = "redirect" THEN 307 ELSE 200,
              jobCreated |-> outcome = "next" /\ path \in RATE_LIMITED_PATHS]
    /\ UNCHANGED <<scVars, liveVars, sumVars, chVars, postVars, pipeVars, srvVars>>
    /\ UNCHANGED <<now, hdr, jar, nextTok, store, storeUp, pc, req, sentCount,
                   advances, tally, last>>

RLNext ==
    \/ \E s \in Slots : Send(s) /\ UNCHANGED btnVars
    \/ \E s \in Slots : GET(s) /\ UNCHANGED btnVars
    \/ \E s \in Slots : GETThrows(s) /\ UNCHANGED btnVars
    \/ StoreFlips /\ UNCHANGED btnVars
    \/ Advance /\ UNCHANGED btnVars

MWNext ==
    \/ RLNext
    \/ \E p \in Paths, o \in {"next", "redirect"} : middleware(p, o) /\ UNCHANGED btnVars

(***************************************************************************)
(* Part 2.  Progress stream clients: SimplifiedTab and                      *)
(* useSimplificationProgress                                                *)
(***************************************************************************)

\* ---- bounds of the model ----
MaxSubs == 2           \* runs of the [fileId] effect (subscriptions)
MaxChunks == 2         \* chunk indices 0 .. MaxChunks - 1
MaxDrops == 2          \* transport errors in one behaviour

\* ---- program constants ----
RECONNECT_MS == 3000         \* setTimeout(connectToSSE, 3000)
TICK_MS == 1000              \* the step of the clock that drives the timers
NoTimer == -1

Subs == 1..MaxSubs
Indices == 0..(MaxChunks - 1)
\* the text the pipeline produced for chunk i
TextOf(i) == <<"chunk", i>>
Files == {"F1", "F2"}
FirstFile == "F1"            \* the first file shown (the files are interchangeable)
NoFile == ""
NoError == ""                \* null
ConnError == "Connection error. Reconnecting..."
JobError == "job failed"
SEP == <<"\n\n">>
Live == {"connecting", "open"}

\* index -> text, for a set of indices
ChunkMaps == {[i \in D |-> TextOf(i)] : D \in SUBSET Indices}
NoChunks == [i \in {} |-> TextOf(i)]

\* the messages of the progress stream: { status: "not_found" } or a snapshot
NotFoundMsg == [status |-> "not_found"]
Snapshots ==
    {m \in [status : {"progress"}, has_chunks : BOOLEAN, simplified_chunks : ChunkMaps,
            total_chunks : {0, MaxChunks}, processed_chunks : 0..MaxChunks,
            completed : BOOLEAN, error : {NoError, JobError}] :
        /\ m.processed_chunks <= m.total_chunks
        \* a message without simplified_chunks: only { error }
        /\ (~m.has_chunks => /\ m.simplified_chunks = NoChunks
                              /\ m.total_chunks = 0
                              /\ ~m.completed
                              /\ m.error = JobError)}
Msgs == {NotFoundMsg} \cup Snapshots

NoProgress == [status |-> "null"]

\* Math.round(processed / total * 100)
Percent(processed, total) == (200 * processed + total) \div (2 * total)

\* overwrite by index: b's entries over a's
Merge(a, b) == [i \in DOMAIN a \cup DOMAIN b |-> IF i \in DOMAIN b THEN b[i] ELSE a[i]]

\* Object.entries(chunks).sort(([a], [b]) => parseInt(a) - parseInt(b)).map(([_, chunk]) => chunk)
RECURSIVE OrderedChunks(_, _)
OrderedChunks(chunks, D) ==
    IF D = {} THEN <<>>
    ELSE LET i == CHOOSE x \in D : \A y \in D : x <= y
         IN  <<chunks[i]>> \o OrderedChunks(chunks, D \ {i})

\* orderedChunks.join("\n\n")
RECURSIVE Join(_)
Join(q) ==
    IF Len(q) = 0 THEN <<>>
    ELSE IF Len(q) = 1 THEN <<q[1]>>
    ELSE <<q[1], SEP>> \o Join(Tail(q))

\* getCombinedSimplifiedContent: `content` when there are no chunks
getCombinedSimplifiedContent(chunks) ==
    IF DOMAIN chunks = {} THEN <<<<"content">>>>
    ELSE Join(OrderedChunks(chunks, DOMAIN chunks))

\* SimplifiedTab eventSource.onmessage: the component's state after the message
TabOnMessageState(st, data) ==
    IF data.status = "not_found" THEN st
    ELSE LET s1 == IF data.has_chunks
                   THEN [st EXCEPT !.simplifiedChunks = data.simplified_chunks]
                   ELSE st
             s2 == IF data.total_chunks # 0 /\ data.processed_chunks # 0
                   THEN [s1 EXCEPT !.progress =
                            Percent(data.processed_chunks, data.total_chunks)]
                   ELSE s1
             s3 == IF data.completed THEN [s2 EXCEPT !.streamingComplete = TRUE] ELSE s2
         IN  IF data.error # NoError THEN [s3 EXCEPT !.streamingError = data.error] ELSE s3

\* A bug the handler could have: no early return on not_found, so that
\* setProgress(data) runs for it.
HookOnMessage_NoEarlyReturn(st, data) ==
    LET s1 == [st EXCEPT !.progress = data]
    IN  IF data.status # "not_found" /\ (data.completed \/ data.error # NoError)
        THEN [s1 EXCEPT !.loading = FALSE]
        ELSE s1

\* SimplifiedTab's render: the view returned, whether it shows the spinner
\* with "Simplifying content..." or "Processing content...", and whether it
\* shows the error box
Render(st, fid) ==
    IF fid = NoFile
    THEN [view |-> "plain", processing |-> FALSE, errorShown |-> FALSE]
    ELSE IF DOMAIN st.simplifiedChunks = {}
    THEN [view |-> "skeleton", processing |-> TRUE, errorShown |-> FALSE]
    ELSE [view |-> "content", processing |-> ~st.streamingComplete,
          errorShown |-> st.streamingError # NoError]

\* useSimplificationProgress eventSource.onmessage: the hook's state after the message
HookOnMessageState(st, data) ==
    IF data.status = "not_found" THEN st
    ELSE LET s1 == [st EXCEPT !.progress = data]
         IN  IF data.completed \/ data.error # NoError
             THEN [s1 EXCEPT !.loading = FALSE]
             ELSE s1

\* onmessage closes the stream: data.completed or data.error (not for not_found)
Terminal(data) ==
    data.status # "not_found" /\ (data.completed \/ data.error # NoError)

\* A bug onerror could have: no reconnect is scheduled.
ScheduleReconnect_Forgotten(t, s) == t

\* A bug onerror could have: the reconnect is scheduled with no delay.
ScheduleReconnect_Immediate(t, s) == [t EXCEPT ![s] = 0]

\* setTimeout(connectToSSE, 3000)
ScheduleReconnect(t, s) == [t EXCEPT ![s] = RECONNECT_MS]

\* a state update of a handler reaches the component only while it is mounted
SetTab(st) == tab' = IF mounted /\ client = "tab" THEN st ELSE tab
SetHook(st) == hook' = IF mounted /\ client = "hook" THEN st ELSE hook

\* useState(...) of SimplifiedTab and of useSimplificationProgress
InitialTab == [simplifiedChunks |-> NoChunks, streamingComplete |-> FALSE,
               streamingError |-> NoError, progress |-> 0, isConnected |-> FALSE]
InitialHook == [progress |-> NoProgress, loading |-> FALSE, error |-> NoError]

NoOrigin == [chunks |-> NoFile, progress |-> NoFile]

\* history: the file of the stream whose message set the chunks, the progress
OriginAfter(o, f, data) ==
    IF ~mounted \/ data.status = "not_found" THEN o
    ELSE [chunks |-> IF client = "tab" /\ data.has_chunks THEN f ELSE o.chunks,
          progress |-> IF client = "hook"
                          \/ (data.total_chunks # 0 /\ data.processed_chunks # 0)
                       THEN f ELSE o.progress]

SCInit ==
    /\ client \in {"tab", "hook"}
    /\ mounted = TRUE
    /\ fileId = NoFile
    /\ nsub = 0
    /\ subFile = [s \in Subs |-> NoFile]
    /\ es = [s \in Subs |-> "none"]
    /\ timer = [s \in Subs |-> NoTimer]
    /\ torn = [s \in Subs |-> FALSE]
    /\ tab = InitialTab
    /\ hook = InitialHook
    /\ drops = 0
    /\ received = NoChunks
    /\ sawNotFound = FALSE
    /\ termSeen = [s \in Subs |-> FALSE]
    /\ origin = NoOrigin

\* the effect's cleanup: if (eventSource) eventSource.close()
Cleanup(e) == [s \in Subs |-> IF s = nsub /\ ~torn[s] /\ e[s] # "none" THEN "closed" ELSE e[s]]
TornAfterCleanup == [s \in Subs |-> torn[s] \/ s = nsub]

\* the fileId prop changes: the cleanup of the old effect runs, then the
\* effect runs again; with a fileId it calls connectToSSE
ChangeFile(f) ==
    /\ mounted
    /\ f # fileId
    /\ f # NoFile => nsub < MaxSubs
    /\ nsub = 0 => f \in {NoFile, FirstFile}
    /\ fileId' = f
    /\ torn' = TornAfterCleanup
    /\ IF f = NoFile
       THEN /\ es' = Cleanup(es)
            /\ UNCHANGED <<nsub, subFile, tab, hook>>
       ELSE /\ nsub' = nsub + 1
            /\ subFile' = [subFile EXCEPT ![nsub + 1] = f]
            /\ es' = [Cleanup(es) EXCEPT ![nsub + 1] = "connecting"]
            /\ SetTab([tab EXCEPT !.isConnected = FALSE])
            /\ SetHook([hook EXCEPT !.loading = TRUE])
    /\ UNCHANGED <<rlVars, liveVars, sumVars, chVars, postVars, pipeVars, btnVars>>
    /\ UNCHANGED <<client, mounted, timer, drops, received, sawNotFound, termSeen, origin>>

\* the component unmounts: the cleanup of the effect runs
Unmount ==
    /\ mounted
    /\ mounted' = FALSE
    /\ es' = Cleanup(es)
    /\ torn' = TornAfterCleanup
    /\ UNCHANGED <<rlVars, liveVars, sumVars, chVars, postVars, pipeVars, btnVars>>
    /\ UNCHANGED <<client, fileId, nsub, subFile, timer, tab, hook, drops,
                   received, sawNotFound, termSeen, origin>>

\* eventSource.onopen
OnOpen(s) ==
    /\ es[s] = "connecting"
    /\ es' = [es EXCEPT ![s] = "open"]
    /\ SetTab([tab EXCEPT !.isConnected = TRUE, !.streamingError = NoError])
    /\ SetHook([hook EXCEPT !.error = NoError])
    /\ UNCHANGED <<rlVars, liveVars, sumVars, chVars, postVars, pipeVars, btnVars>>
    /\ UNCHANGED <<client, mounted, fileId, nsub, subFile, timer, torn, drops,
                   received, sawNotFound, termSeen, origin>>

\* eventSource.onmessage with event.data = data
OnMessage(s, data) ==
    /\ es[s] = "open"
    /\ SetTab(TabOnMessageState(tab, data))
    /\ SetHook(HookOnMessageState(hook, data))
    /\ es' = [es EXCEPT ![s] = IF Terminal(data) THEN "closed" ELSE "open"]
    /\ termSeen' = [termSeen EXCEPT ![s] = Terminal(data)]
    /\ origin' = OriginAfter(origin, subFile[s], data)
    /\ UNCHANGED <<rlVars, liveVars, sumVars, chVars, postVars, pipeVars, btnVars>>
    /\ UNCHANGED <<client, mounted, fileId, nsub, subFile, timer, torn, drops>>

\* history: the chunks of the message merged, by index, into those received
Record(data) ==
    /\ received' = IF data.status # "not_found" /\ data.has_chunks
                   THEN Merge(received, data.simplified_chunks)
                   ELSE received
    /\ sawNotFound' = (sawNotFound \/ data.status = "not_found")

\* history: one more transport error (the count stops at MaxDrops)
CountDrop == drops' = Min(drops + 1, MaxDrops)

\* eventSource.onerror: the transport failed
OnError(s) ==
    /\ es[s] \in Live
    /\ SetTab([tab EXCEPT !.isConnected = FALSE, !.streamingError = ConnError])
    /\ SetHook([hook EXCEPT !.error = ConnError])
    /\ es' = [es EXCEPT ![s] = "closed"]
    /\ timer' = ScheduleReconnect(timer, s)
    /\ UNCHANGED <<rlVars, liveVars, sumVars, chVars, postVars, pipeVars, btnVars>>
    /\ UNCHANGED <<client, mounted, fileId, nsub, subFile, torn, received,
                   sawNotFound, termSeen, origin>>

\* the timeout set by onerror expires: connectToSSE runs again
TimerFires(s) ==
    /\ timer[s] = 0
    /\ timer' = [timer EXCEPT ![s] = NoTimer]
    /\ es' = [es EXCEPT ![s] = "connecting"]
    /\ SetTab([tab EXCEPT !.isConnected = FALSE])
    /\ SetHook([hook EXCEPT !.loading = TRUE])
    /\ UNCHANGED <<rlVars, liveVars, sumVars, chVars, postVars, pipeVars, btnVars>>
    /\ UNCHANGED <<client, mounted, fileId, nsub, subFile, torn, drops, received,
                   sawNotFound, termSeen, origin>>

\* one second passes; a timeout that has expired runs first
Tick ==
    /\ \A s \in Subs : timer[s] # 0
    /\ \E s \in Subs : timer[s] > 0
    /\ timer' = [s \in Subs |-> IF timer[s] > 0 THEN timer[s] - TICK_MS ELSE timer[s]]
    /\ UNCHANGED <<rlVars, liveVars, sumVars, chVars, postVars, pipeVars, btnVars>>
    /\ UNCHANGED <<client, mounted, fileId, nsub, subFile, es, torn, tab, hook,
                   drops, received, sawNotFound, termSeen, origin>>

SCNext ==
    \/ \E f \in Files \cup {NoFile} : ChangeFile(f) /\ UNCHANGED srvVars
    \/ Unmount /\ UNCHANGED srvVars
    \/ \E s \in Subs : OnOpen(s) /\ UNCHANGED srvVars
    \/ \E s \in Subs, data \in Msgs :
          OnMessage(s, data) /\ UNCHANGED <<received, sawNotFound>> /\ UNCHANGED srvVars
    \/ \E s \in Subs : OnError(s) /\ UNCHANGED drops /\ UNCHANGED srvVars
    \/ \E s \in Subs : TimerFires(s) /\ UNCHANGED srvVars
    \/ Tick /\ UNCHANGED srvVars

\* one subscription of a client, with the history of what it received
StreamNext ==
    \/ nsub = 0 /\ ChangeFile(FirstFile) /\ UNCHANGED srvVars
    \/ \E s \in Subs : OnOpen(s) /\ UNCHANGED srvVars
    \/ \E s \in Subs, data \in Msgs :
          OnMessage(s, data) /\ Record(data) /\ UNCHANGED srvVars
    \/ \E s \in Subs : OnError(s) /\ CountDrop /\ UNCHANGED srvVars
    \/ \E s \in Subs : TimerFires(s) /\ UNCHANGED srvVars
    \/ Tick /\ UNCHANGED srvVars

(***************************************************************************)
(* Part 3. The job behind the progress stream.  The task store, the        *)
(* pipeline and the stream server are not among the sources; they are      *)
(* modelled from sections 4.4 to 4.6 of the specification: one job, whose  *)
(* state the server pushes as a full snapshot to every open connection.    *)
(***************************************************************************)

NoJob == [exists |-> FALSE, chunks |-> NoChunks, completed |-> FALSE, error |-> NoError]

\* the message pushed for a job state: the full snapshot
SnapshotOf(j) ==
    [status |-> "progress", has_chunks |-> TRUE, simplified_chunks |-> j.chunks,
     total_chunks |-> MaxChunks, processed_chunks |-> Cardinality(DOMAIN j.chunks),
     completed |-> j.completed, error |-> j.error]

\* read(job_id) -> JobState | not_found
read == IF job.exists THEN SnapshotOf(job) ELSE NotFoundMsg

JobTerminal == job.completed \/ job.error # NoError

\* the state of the mounted client, and its handler of a message
View == IF client = "tab" THEN tab ELSE hook
Feed(st, data) ==
    IF client = "tab" THEN TabOnMessageState(st, data) ELSE HookOnMessageState(st, data)

\* a client that has connected and whose connection is open
Opened ==
    IF client = "tab" THEN [InitialTab EXCEPT !.isConnected = TRUE]
    ELSE [InitialHook EXCEPT !.loading = TRUE]

LiveInit ==
    /\ job = NoJob
    /\ unbroken = Opened

\* a mutation of the task store; the unbroken client is pushed the new state
Mutate(j) ==
    /\ job' = j
    /\ unbroken' = Feed(unbroken, SnapshotOf(j))
    /\ UNCHANGED <<rlVars, scVars, sumVars, chVars, postVars, pipeVars, btnVars>>

create ==
    /\ ~job.exists
    /\ Mutate([NoJob EXCEPT !.exists = TRUE])

\* idempotent per index
record_chunk(i) ==
    /\ job.exists /\ ~JobTerminal
    /\ Mutate([job EXCEPT !.chunks = Merge(@, [x \in {i} |-> TextOf(x)])])

mark_completed ==
    /\ job.exists /\ ~JobTerminal
    /\ DOMAIN job.chunks = Indices
    /\ Mutate([job EXCEPT !.completed = TRUE])

mark_error ==
    /\ job.exists /\ ~JobTerminal
    /\ Mutate([job EXCEPT !.error = JobError])

\* the stream server pushes what it read to an open connection
Push(s) == OnMessage(s, read) /\ Record(read)

\* the transport drops, one of finitely many times
Drop(s) ==
    /\ drops < MaxDrops
    /\ OnError(s)
    /\ drops' = drops + 1

Subscribe == nsub = 0 /\ ChangeFile(FirstFile)

LiveNext ==
    \/ Subscribe /\ UNCHANGED srvVars
    \/ \E s \in Subs : OnOpen(s) /\ UNCHANGED srvVars
    \/ \E s \in Subs : Push(s) /\ UNCHANGED srvVars
    \/ \E s \in Subs : Drop(s) /\ UNCHANGED srvVars
    \/ \E s \in Subs : TimerFires(s) /\ UNCHANGED srvVars
    \/ Tick /\ UNCHANGED srvVars
    \/ create /\ UNCHANGED srvVars
    \/ \E i \in Indices : record_chunk(i) /\ UNCHANGED srvVars
    \/ mark_completed /\ UNCHANGED srvVars
    \/ mark_error /\ UNCHANGED srvVars

(***************************************************************************)
(* Part 4. SummaryTab and trackTaskStatus: the task-status stream.         *)
(***************************************************************************)

MaxTasks == 2
NoTask == 0

GENERATE_FAILED == "Failed to generate summary. Please try again."
START_FAILED == "Failed to start summary generation. Please try again."
CONNECTION_ERROR == "Connection error"
FinalStatuses == {"SUCCESS", "FAILURE", "REVOKED"}

\* the status updates the task stream can carry
StatusUpdates ==
    [status : {"PENDING", "PROGRESS"} \cup FinalStatuses,
     has_progress : BOOLEAN, stage : {"summarizing"}, pct : {0, 50},
     error : {NoError, JobError}]

\* onUpdate({ error: "Connection error", taskId })
ConnectionErrorUpdate ==
    [status |-> "undefined", has_progress |-> FALSE, stage |-> "summarizing",
     pct |-> 0, error |-> CONNECTION_ERROR]

SumInit ==
    /\ swr = "loading"
    /\ sum = [isGenerating |-> FALSE, progress |-> 0, stage |-> "",
              taskId |-> NoTask, summaryError |-> NoError]
    /\ call = "none"
    /\ tsrc = "none"
    /\ nextTask = 1
    /\ failHeard = FALSE

\* the callback SummaryTab passes to trackTaskStatus
OnUpdateState(st, d) ==
    LET st1 == IF d.has_progress
               THEN [st EXCEPT !.stage = d.stage, !.progress = d.pct]
               ELSE st
        st2 == IF d.status = "SUCCESS" THEN [st1 EXCEPT !.isGenerating = FALSE] ELSE st1
    IN  IF d.error # NoError \/ d.status = "FAILURE"
        THEN [st2 EXCEPT !.isGenerating = FALSE, !.summaryError = GENERATE_FAILED]
        ELSE st2

\* startSummarization, up to its await
startSummarization(st) ==
    /\ nextTask <= MaxTasks
    /\ sum' = [st EXCEPT !.isGenerating = TRUE, !.summaryError = NoError]
    /\ call' = "pending"
    /\ failHeard' = FALSE

\* getSummary settles; the first effect starts the summarization if there
\* is no summary
SwrSettles(hasData) ==
    /\ swr = "loading"
    /\ swr' = IF hasData THEN "data" ELSE "nodata"
    /\ IF ~hasData /\ ~sum.isGenerating /\ sum.summaryError = NoError /\ nextTask <= MaxTasks
       THEN startSummarization(sum)
       ELSE UNCHANGED <<sum, call, failHeard>>
    /\ UNCHANGED <<rlVars, scVars, liveVars, chVars, postVars, pipeVars, srvVars, btnVars>>
    /\ UNCHANGED <<tsrc, nextTask>>

\* the Retry button, shown with the error
Retry ==
    /\ swr # "loading" /\ ~sum.isGenerating /\ sum.summaryError # NoError
    /\ startSummarization(sum)
    /\ UNCHANGED <<rlVars, scVars, liveVars, chVars, postVars, pipeVars, srvVars, btnVars>>
    /\ UNCHANGED <<swr, tsrc, nextTask>>

\* summarizeFile resolves: setTaskId; the second effect runs trackTaskStatus
SummarizeResolves ==
    /\ call = "pending"
    /\ call' = "none"
    /\ sum' = [sum EXCEPT !.taskId = nextTask]
    /\ nextTask' = nextTask + 1
    /\ tsrc' = "open"
    /\ UNCHANGED <<rlVars, scVars, liveVars, chVars, postVars, pipeVars, srvVars, btnVars>>
    /\ UNCHANGED <<swr, failHeard>>

\* summarizeFile rejects
SummarizeRejects ==
    /\ call = "pending"
    /\ call' = "none"
    /\ sum' = [sum EXCEPT !.isGenerating = FALSE, !.summaryError = START_FAILED]
    /\ UNCHANGED <<rlVars, scVars, liveVars, chVars, postVars, pipeVars, srvVars, btnVars>>
    /\ UNCHANGED <<swr, tsrc, nextTask, failHeard>>

\* trackTaskStatus: eventSource.onmessage
TrackOnMessage(d) ==
    /\ tsrc = "open"
    /\ sum' = OnUpdateState(sum, d)
    /\ swr' = IF d.status = "SUCCESS" THEN "loading" ELSE swr
    /\ tsrc' = IF d.status \in FinalStatuses THEN "closed" ELSE "open"
    /\ failHeard' = (failHeard \/ d.error # NoError \/ d.status = "FAILURE")
    /\ UNCHANGED <<rlVars, scVars, liveVars, chVars, postVars, pipeVars, srvVars, btnVars>>
    /\ UNCHANGED <<call, nextTask>>

\* trackTaskStatus: eventSource.onerror
TrackOnError ==
    /\ tsrc = "open"
    /\ tsrc' = "closed"
    /\ sum' = OnUpdateState(sum, ConnectionErrorUpdate)
    /\ UNCHANGED <<rlVars, scVars, liveVars, chVars, postVars, pipeVars, srvVars, btnVars>>
    /\ UNCHANGED <<swr, call, nextTask, failHeard>>

SumNext ==
    \/ \E hasData \in BOOLEAN : SwrSettles(hasData)
    \/ Retry
    \/ SummarizeResolves
    \/ SummarizeRejects
    \/ \E d \in StatusUpdates : TrackOnMessage(d)
    \/ TrackOnError

(***************************************************************************)
(* Part 5. The chunker: splitContentIntoChunks.  A text is a sequence of   *)
(* characters: a letter, a newline or a space.                             *)
(***************************************************************************)

MaxLen == 9            \* characters of the content
MaxSize == 2           \* maxChunkSize is 1 .. MaxSize

NL == "\n"
SP == " "
Chars == {"a", NL, SP}
PARA_SEP == <<NL, NL>>
Texts == UNION {[1..n -> Chars] : n \in 0..MaxLen}
Sizes == 1..MaxSize

\* \s
IsSpace(c) == c \in {NL, SP}

\* the end of the match of /\n\s*\n/ that starts at p (\s* is greedy), or 0
MatchEnd(t, p) ==
    LET ends == {q \in (p + 1)..Len(t) :
                    t[q] = NL /\ \A k \in (p + 1)..(q - 1) : IsSpace(t[k])}
    IN  IF t[p] = NL /\ ends # {} THEN CHOOSE q \in ends : \A r \in ends : r <= q ELSE 0

\* the next position after p where a match can start: the next newline
NextNewline(t, p) ==
    LET nls == {q \in (p + 1)..Len(t) : t[q] = NL}
    IN  IF nls = {} THEN Len(t) + 1 ELSE CHOOSE q \in nls : \A r \in nls : q <= r

\* content.split(/\n\s*\n/): the pieces from `start`, the scan being at p
RECURSIVE SplitFrom(_, _, _)
SplitFrom(t, p, start) ==
    IF p > Len(t) THEN <<SubSeq(t, start, Len(t))>>
    ELSE IF MatchEnd(t, p) # 0
    THEN <<SubSeq(t, start, p - 1)>> \o SplitFrom(t, MatchEnd(t, p) + 1, MatchEnd(t, p) + 1)
    ELSE SplitFrom(t, NextNewline(t, p), start)

Paragraphs(t) == SplitFrom(t, 1, 1)

\* the loop over the paragraphs from the i-th on, and the final flush
RECURSIVE Accumulate(_, _, _, _, _)
Accumulate(ps, i, acc, currentChunk, maxChunkSize) ==
    IF i > Len(ps)
    THEN IF currentChunk # <<>> THEN Append(acc, currentChunk) ELSE acc
    ELSE IF Len(currentChunk) + Len(ps[i]) > maxChunkSize /\ Len(currentChunk) > 0
    THEN Accumulate(ps, i + 1, Append(acc, currentChunk), ps[i], maxChunkSize)
    ELSE Accumulate(ps, i + 1, acc,
                    currentChunk \o (IF currentChunk # <<>> THEN PARA_SEP ELSE <<>>) \o ps[i],
                    maxChunkSize)

\* A bug the chunker could have: the buffer is never flushed in the loop.
RECURSIVE AccumulateAll(_, _, _)
AccumulateAll(ps, i, currentChunk) ==
    IF i > Len(ps)
    THEN IF currentChunk # <<>> THEN <<currentChunk>> ELSE <<>>
    ELSE AccumulateAll(ps, i + 1,
                       currentChunk \o (IF currentChunk # <<>> THEN PARA_SEP ELSE <<>>) \o ps[i])
splitContentIntoChunks_NeverFlushes(content, maxChunkSize) ==
    AccumulateAll(Paragraphs(content), 1, <<>>)

\* A bug the chunker could have: the last buffer is pushed without the test
\* that it is not empty.
RECURSIVE AccumulateUnchecked(_, _, _, _, _)
AccumulateUnchecked(ps, i, acc, currentChunk, maxChunkSize) ==
    IF i > Len(ps)
    THEN Append(acc, currentChunk)
    ELSE IF Len(currentChunk) + Len(ps[i]) > maxChunkSize /\ Len(currentChunk) > 0
    THEN AccumulateUnchecked(ps, i + 1, Append(acc, currentChunk), ps[i], maxChunkSize)
    ELSE AccumulateUnchecked(ps, i + 1, acc,
                    currentChunk \o (IF currentChunk # <<>> THEN PARA_SEP ELSE <<>>) \o ps[i],
                    maxChunkSize)
splitContentIntoChunks_PushesEmpty(content, maxChunkSize) ==
    AccumulateUnchecked(Paragraphs(content), 1, <<>>, <<>>, maxChunkSize)

splitContentIntoChunks(content, maxChunkSize) ==
    Accumulate(Paragraphs(content), 1, <<>>, <<>>, maxChunkSize)

\* chunks.join("\n\n")
RECURSIVE JoinChunks(_)
JoinChunks(cs) ==
    IF cs = <<>> THEN <<>>
    ELSE IF Len(cs) = 1 THEN cs[1]
    ELSE cs[1] \o PARA_SEP \o JoinChunks(Tail(cs))

ChunkInit ==
    /\ text = <<>>
    /\ maxSize = 1
    /\ returned = <<>>
    /\ chunked = FALSE
    /\ score = [done |-> FALSE]
    /\ syllables = -1

\* a call of splitContentIntoChunks
ChunkInputs ==
    /\ text \in Texts
    /\ maxSize \in Sizes
    /\ returned = <<>>
    /\ chunked = FALSE
    /\ score = [done |-> FALSE]
    /\ syllables = -1

Chunk ==
    /\ ~chunked
    /\ returned' = splitContentIntoChunks(text, maxSize)
    /\ chunked' = TRUE
    /\ UNCHANGED <<text, maxSize, score, syllables>>
    /\ UNCHANGED <<rlVars, scVars, liveVars, sumVars, postVars, pipeVars, srvVars, btnVars>>

ChunkNext == Chunk

(***************************************************************************)
(* Part 6. The content submission handlers: POST /api/simplify-content and *)
(* the POST handler that chunks, embeds and stores the content.            *)
(***************************************************************************)

DEFAULT_MAX_CHUNK_SIZE == 500
ParaLen == 300         \* characters of a long paragraph
MaxFailAt == 3         \* the chunk whose processing throws is 1 .. MaxFailAt

\* a call the handler made: for which chunk (0: none), and whether it returned
Did(c, k, ok) == [call |-> c, chunk |-> k, ok |-> ok]
LongParagraph == [i \in 1..ParaLen |-> "a"]

NoAnswer == [status |-> 0, success |-> FALSE, kind |-> "none"]

\* contents a submission carries, when it carries one
Contents ==
    {<<>>, <<"a">>, <<"a", NL, NL, "a">>, <<NL, NL>>,
     LongParagraph \o PARA_SEP \o LongParagraph \o PARA_SEP \o LongParagraph}

\* the request and the collaborators as the handler finds them
Submissions ==
    [route : {"simplify", "store"},
     hasContent : BOOLEAN, content : Contents,
     hasLevel : BOOLEAN, hasProfile : BOOLEAN,
     collectionExists : BOOLEAN, qdrantUp : BOOLEAN, groqUp : BOOLEAN,
     failAt : 0..MaxFailAt, failIn : {"embedding", "upsert"}]

\* !content
NoContent(r) == ~r.hasContent \/ r.content = <<>>

\* POST of simplify-content/route.ts: what it did and what it answers
SimplifyPOST(r) ==
    IF NoContent(r) \/ ~r.hasLevel \/ ~r.hasProfile
    THEN [effects |-> <<>>,
          answer |-> [status |-> 400, success |-> FALSE, kind |-> "validation"]]
    ELSE IF r.groqUp
    THEN [effects |-> <<Did("completion", 0, TRUE)>>,
          answer |-> [status |-> 200, success |-> TRUE, kind |-> "ok"]]
    ELSE [effects |-> <<Did("completion", 0, FALSE)>>,
          answer |-> [status |-> 500, success |-> FALSE, kind |-> "thrown"]]

\* ensureCollectionExists: the calls it makes; it catches what they throw
ensureCollectionExists(r) ==
    IF ~r.qdrantUp THEN <<Did("getCollections", 0, FALSE)>>
    ELSE IF r.collectionExists THEN <<Did("getCollections", 0, TRUE)>>
    ELSE <<Did("getCollections", 0, TRUE), Did("createCollection", 0, TRUE)>>

\* A bug the loop could have: a chunk whose processing throws is skipped
\* and the loop goes on.
RECURSIVE ProcessChunks_SkipsFailed(_, _, _)
ProcessChunks_SkipsFailed(cs, i, r) ==
    IF i > Len(cs) THEN <<>>
    ELSE IF r.failAt = i /\ r.failIn = "embedding"
    THEN ProcessChunks_SkipsFailed(cs, i + 1, r)
    ELSE IF ~r.qdrantUp \/ r.failAt = i
    THEN <<Did("embedding", i, TRUE)>> \o ProcessChunks_SkipsFailed(cs, i + 1, r)
    ELSE <<Did("embedding", i, TRUE), Did("upsert", i, TRUE)>>
             \o ProcessChunks_SkipsFailed(cs, i + 1, r)

\* the loop over the chunks, from the i-th on: an awaited embedding and an
\* awaited upsert for each, up to the first call that throws
RECURSIVE ProcessChunks(_, _, _)
ProcessChunks(cs, i, r) ==
    IF i > Len(cs) THEN <<>>
    ELSE IF r.failAt = i /\ r.failIn = "embedding"
    THEN <<Did("embedding", i, FALSE)>>
    ELSE IF ~r.qdrantUp \/ r.failAt = i
    THEN <<Did("embedding", i, TRUE), Did("upsert", i, FALSE)>>
    ELSE <<Did("embedding", i, TRUE), Did("upsert", i, TRUE)>> \o ProcessChunks(cs, i + 1, r)

\* a call of the loop threw
Threw(did) == \E j \in 1..Len(did) : ~did[j].ok

\* the POST handler that stores the content: what it did and what it answers
StorePOST(r) ==
    LET before == ensureCollectionExists(r)
    IN  IF ~r.hasContent
        THEN \* content.split on undefined throws a TypeError
             [effects |-> before,
              answer |-> [status |-> 500, success |-> FALSE, kind |-> "thrown"]]
        ELSE LET cs == splitContentIntoChunks(r.content, DEFAULT_MAX_CHUNK_SIZE)
                 loop == ProcessChunks(cs, 1, r)
                 did == before \o <<Did("chunking", 0, TRUE)>> \o loop
             IN  IF Threw(loop)
                 THEN [effects |-> did,
                       answer |-> [status |-> 500, success |-> FALSE, kind |-> "thrown"]]
                 ELSE [effects |-> did,
                       answer |-> [status |-> 200, success |-> TRUE, kind |-> "ok"]]

PostIdle ==
    /\ submission = [route |-> "simplify", hasContent |-> FALSE, content |-> <<>>,
                     hasLevel |-> FALSE, hasProfile |-> FALSE,
                     collectionExists |-> FALSE, qdrantUp |-> FALSE, groqUp |-> FALSE,
                     failAt |-> 0, failIn |-> "embedding"]
    /\ answer = NoAnswer
    /\ effects = <<>>

PostInit ==
    /\ submission \in Submissions
    /\ ~submission.hasContent => submission.content = <<>>
    /\ submission.failAt = 0 => submission.failIn = "embedding"
    /\ submission.route = "simplify" => submission.failAt = 0
    /\ answer = NoAnswer
    /\ effects = <<>>

\* the handler of the submission's route runs
Handle ==
    /\ answer = NoAnswer
    /\ LET out == IF submission.route = "simplify"
                  THEN SimplifyPOST(submission) ELSE StorePOST(submission)
       IN  answer' = out.answer /\ effects' = out.effects
    /\ UNCHANGED submission
    /\ UNCHANGED <<rlVars, scVars, liveVars, sumVars, chVars, pipeVars, srvVars, btnVars>>

PostNext == Handle

(***************************************************************************)
(* Part 7. The processing pipeline and the task store.  Neither is among   *)
(* the sources; they are modelled from sections 3, 4.4, 4.5 and 5 of the   *)
(* specification: one job, its worker, and the external calls of its       *)
(* chunks, which may be in flight together.                                *)
(***************************************************************************)

\* ---- bounds of the model ----
MaxTotal == 3          \* total_chunks is 0 .. MaxTotal
MaxFanout == 2         \* external calls of one job in flight together
MaxRecords == 4        \* record_chunk calls made on the store directly

\* ---- constants of the design ----
MaxAttempts == 3       \* attempts of one chunk call

AllIndices == 0..(MaxTotal - 1)
ResultOf(i) == <<"simplified", i>>
ChunkError == "chunk processing failed"
ChunkingError == "chunking failed"

NoJobState ==
    [exists |-> FALSE, total_chunks |-> 0, processed_chunks |-> 0,
     chunk_results |-> [i \in {} |-> <<>>], completed |-> FALSE, error |-> NoError]

\* the chunk indices of a job
IndicesOf(j) == {i \in AllIndices : i < j.total_chunks}

\* ---- the task store's operations, on the state of the job ----

\* create(job_id, total_chunks)
store_create(n) == [NoJobState EXCEPT !.exists = TRUE, !.total_chunks = n]

\* A bug record_chunk could have: a blind increment.
store_record_chunk_BlindIncrement(j, i, t) ==
    [j EXCEPT !.chunk_results = [x \in DOMAIN @ \cup {i} |-> IF x = i THEN t ELSE @[x]],
              !.processed_chunks = @ + 1]

\* record_chunk(job_id, index, text): processed chunks are counted by index
store_record_chunk(j, i, t) ==
    [j EXCEPT !.chunk_results = [x \in DOMAIN @ \cup {i} |-> IF x = i THEN t ELSE @[x]],
              !.processed_chunks = IF i \in DOMAIN j.chunk_results THEN @ ELSE @ + 1]

\* mark_completed(job_id)
store_mark_completed(j) == [j EXCEPT !.completed = TRUE]

\* mark_error(job_id, message): the job is terminal and not completed
store_mark_error(j, m) == [j EXCEPT !.exists = TRUE, !.error = m, !.completed = FALSE]

\* ---- the pipeline worker of the job ----

NoCalls == [i \in AllIndices |-> [status |-> "pending", attempts |-> 0]]
InFlight == {i \in AllIndices : calls[i].status = "inflight"}

\* CREATED < CHUNKING < PROCESSING < COMPLETED, FAILED
Rank(st) ==
    CASE st = "NONE" -> 0 [] st = "CREATED" -> 1 [] st = "CHUNKING" -> 2
      [] st = "PROCESSING" -> 3 [] OTHER -> 4

PipeInit ==
    /\ jobState = NoJobState
    /\ stage = "NONE"
    /\ calls = NoCalls
    /\ markErrors = 0
    /\ recordCalls = 0
    /\ kept = {}

PipeFrame == UNCHANGED <<rlVars, scVars, liveVars, sumVars, chVars, postVars, srvVars, btnVars>>

\* CREATED: the job is accepted and its job_id assigned
Accept ==
    /\ stage = "NONE"
    /\ stage' = "CREATED"
    /\ UNCHANGED <<jobState, calls, markErrors, recordCalls, kept>>
    /\ PipeFrame

\* CHUNKING: the chunker is invoked, once
StartChunking ==
    /\ stage = "CREATED"
    /\ stage' = "CHUNKING"
    /\ UNCHANGED <<jobState, calls, markErrors, recordCalls, kept>>
    /\ PipeFrame

\* the chunker returns n chunks: total_chunks is fixed, PROCESSING begins
ChunkingDone(n) ==
    /\ stage = "CHUNKING"
    /\ stage' = "PROCESSING"
    /\ jobState' = store_create(n)
    /\ UNCHANGED <<calls, markErrors, recordCalls, kept>>
    /\ PipeFrame

\* the chunker throws: the job fails
ChunkingThrows ==
    /\ stage = "CHUNKING"
    /\ stage' = "FAILED"
    /\ jobState' = store_mark_error(jobState, ChunkingError)
    /\ markErrors' = markErrors + 1
    /\ UNCHANGED <<calls, recordCalls, kept>>
    /\ PipeFrame

\* the external completion service is called for chunk i: a first attempt,
\* or a retry after the backoff
Issue(i) ==
    /\ stage = "PROCESSING"
    /\ i \in IndicesOf(jobState)
    /\ calls[i].status = "pending"
    /\ Cardinality(InFlight) < MaxFanout
    /\ calls' = [calls EXCEPT ![i] = [status |-> "inflight", attempts |-> @.attempts + 1]]
    /\ UNCHANGED <<jobState, stage, markErrors, recordCalls, kept>>
    /\ PipeFrame

\* A bug the worker could have: a result that arrives after the job has
\* failed is recorded all the same.
Succeed_RecordsAfterFailure(i) ==
    /\ calls[i].status = "inflight"
    /\ calls' = [calls EXCEPT ![i].status = "done"]
    /\ jobState' = store_record_chunk(jobState, i, ResultOf(i))
    /\ recordCalls' = recordCalls + 1
    /\ kept' = kept \cup {i}
    /\ UNCHANGED <<stage, markErrors>>
    /\ PipeFrame

\* the call of chunk i returns its text: record_chunk, unless the job has
\* failed meanwhile
Succeed(i) ==
    /\ calls[i].status = "inflight"
    /\ calls' = [calls EXCEPT ![i].status = "done"]
    /\ IF stage = "PROCESSING"
       THEN /\ jobState' = store_record_chunk(jobState, i, ResultOf(i))
            /\ recordCalls' = recordCalls + 1
            /\ kept' = kept \cup {i}
       ELSE UNCHANGED <<jobState, recordCalls, kept>>
    /\ UNCHANGED <<stage, markErrors>>
    /\ PipeFrame

\* A bug the worker could have: the first failure of a call fails the job.
FailCall_NoRetry(i) ==
    /\ calls[i].status = "inflight"
    /\ calls' = [calls EXCEPT ![i].status = "exhausted"]
    /\ IF stage = "PROCESSING"
       THEN /\ stage' = "FAILED"
            /\ jobState' = store_mark_error(jobState, ChunkError)
            /\ markErrors' = markErrors + 1
       ELSE UNCHANGED <<jobState, stage, markErrors>>
    /\ UNCHANGED <<recordCalls, kept>>
    /\ PipeFrame

\* the call of chunk i fails or times out: a retry while attempts are left,
\* else the whole job fails, once
FailCall(i) ==
    /\ calls[i].status = "inflight"
    /\ IF calls[i].attempts < MaxAttempts
       THEN /\ calls' = [calls EXCEPT ![i].status = "pending"]
            /\ UNCHANGED <<jobState, stage, markErrors>>
       ELSE /\ calls' = [calls EXCEPT ![i].status = "exhausted"]
            /\ IF stage = "PROCESSING"
               THEN /\ stage' = "FAILED"
                    /\ jobState' = store_mark_error(jobState, ChunkError)
                    /\ markErrors' = markErrors + 1
               ELSE UNCHANGED <<jobState, stage, markErrors>>
    /\ UNCHANGED <<recordCalls, kept>>
    /\ PipeFrame

\* A bug the worker could have: completion as soon as every call was made.
Complete_Early ==
    /\ stage = "PROCESSING"
    /\ \A i \in IndicesOf(jobState) : calls[i].status # "pending"
    /\ stage' = "COMPLETED"
    /\ jobState' = store_mark_completed(jobState)
    /\ UNCHANGED <<calls, markErrors, recordCalls, kept>>
    /\ PipeFrame

\* COMPLETED: processed_chunks == total_chunks with no error triggers
\* mark_completed
Complete ==
    /\ stage = "PROCESSING"
    /\ jobState.processed_chunks = jobState.total_chunks
    /\ jobState.error = NoError
    /\ stage' = "COMPLETED"
    /\ jobState' = store_mark_completed(jobState)
    /\ UNCHANGED <<calls, markErrors, recordCalls, kept>>
    /\ PipeFrame

PipeNext ==
    \/ Accept
    \/ StartChunking
    \/ \E n \in 0..MaxTotal : ChunkingDone(n)
    \/ ChunkingThrows
    \/ \E i \in AllIndices : Issue(i)
    \/ \E i \in AllIndices : Succeed(i)
    \/ \E i \in AllIndices : FailCall(i)
    \/ Complete

\* ---- the task store called directly, in any order ----

StoreCreate(n) ==
    /\ ~jobState.exists
    /\ jobState' = store_create(n)
    /\ UNCHANGED <<stage, calls, markErrors, recordCalls, kept>>
    /\ PipeFrame

\* record_chunk with any index of the job, a first time or again
StoreRecord(i) ==
    /\ jobState.exists
    /\ i \in IndicesOf(jobState)
    /\ recordCalls < MaxRecords
    /\ jobState' = store_record_chunk(jobState, i, ResultOf(i))
    /\ recordCalls' = recordCalls + 1
    /\ kept' = kept \cup {i}
    /\ UNCHANGED <<stage, calls, markErrors>>
    /\ PipeFrame

StoreComplete ==
    /\ jobState.exists /\ ~jobState.completed
    /\ jobState' = store_mark_completed(jobState)
    /\ UNCHANGED <<stage, calls, markErrors, recordCalls, kept>>
    /\ PipeFrame

StoreFail ==
    /\ jobState.exists /\ jobState.error = NoError
    /\ jobState' = store_mark_error(jobState, ChunkError)
    /\ UNCHANGED <<stage, calls, markErrors, recordCalls, kept>>
    /\ PipeFrame

StoreNext ==
    \/ \E n \in 0..MaxTotal : StoreCreate(n)
    \/ \E i \in AllIndices : StoreRecord(i)
    \/ StoreComplete
    \/ StoreFail

(***************************************************************************)
(* Part 8. The progress stream server, modelled from section 4.6 of the    *)
(* specification: for each connection it reads the job and pushes a        *)
(* snapshot, not_found for a job it does not know, and closes the stream   *)
(* from its side once a terminal snapshot was pushed.                      *)
(***************************************************************************)

SrvInit ==
    /\ srv = [s \in Subs |-> "none"]
    /\ pushedTerm = [s \in Subs |-> FALSE]

\* the server accepts the connection: the client's onopen runs
ServerAccept(s) ==
    /\ OnOpen(s)
    /\ srv' = [srv EXCEPT ![s] = "streaming"]
    /\ pushedTerm' = [pushedTerm EXCEPT ![s] = FALSE]

\* the server reads the job and pushes what it read on the connection
ServerPush(s) ==
    /\ srv[s] = "streaming"
    /\ Push(s)
    /\ pushedTerm' = [pushedTerm EXCEPT ![s] = @ \/ Terminal(read)]
    /\ UNCHANGED srv

\* the transport drops: the server's side of the connection is gone too
ServerDrop(s) ==
    /\ Drop(s)
    /\ srv' = [srv EXCEPT ![s] = "none"]
    /\ UNCHANGED pushedTerm

\* the end of the stream, as the client's side of the connection sees it
StreamEnds(s) ==
    IF es[s] \in Live
    THEN OnError(s) /\ CountDrop
    ELSE /\ UNCHANGED scVars
         /\ UNCHANGED <<rlVars, liveVars, sumVars, chVars, postVars, pipeVars, btnVars>>

\* A bug the server could have: it closes the stream of a job it does not
\* know, or whenever it likes.
ServerClose_Early(s) ==
    /\ srv[s] = "streaming"
    /\ srv' = [srv EXCEPT ![s] = "done"]
    /\ UNCHANGED pushedTerm
    /\ StreamEnds(s)

\* the server closes the stream from its side: completed or error was
\* observed and pushed at least once
ServerClose(s) ==
    /\ srv[s] = "streaming"
    /\ pushedTerm[s]
    /\ srv' = [srv EXCEPT ![s] = "done"]
    /\ UNCHANGED pushedTerm
    /\ StreamEnds(s)

ServeNext ==
    \/ Subscribe /\ UNCHANGED srvVars
    \/ \E s \in Subs : ServerAccept(s)
    \/ \E s \in Subs : ServerPush(s)
    \/ \E s \in Subs : ServerDrop(s)
    \/ \E s \in Subs : ServerClose(s)
    \/ \E s \in Subs : TimerFires(s) /\ UNCHANGED srvVars
    \/ Tick /\ UNCHANGED srvVars
    \/ create /\ UNCHANGED srvVars
    \/ \E i \in Indices : record_chunk(i) /\ UNCHANGED srvVars
    \/ mark_completed /\ UNCHANGED srvVars
    \/ mark_error /\ UNCHANGED srvVars

(***************************************************************************)
(* Part 9. LimitedActionButton: the button that polls GET /api/limits on   *)
(* mount, every minute and after each click, and gates its action on what  *)
(* it was told.                                                            *)
(***************************************************************************)

NoInfo == [status |-> 0]     \* useState<RateLimitInfo | null>(null)

BtnInit ==
    /\ btn = [isLoading |-> FALSE, limitInfo |-> NoInfo, isLimited |-> FALSE]
    /\ issuer = [s \in Slots |-> "none"]
    /\ acted = FALSE

\* if (response.ok) { setLimitInfo(data.limits); setIsLimited(data.limits.remaining <= 0) }
AfterResponse(b, response) ==
    IF response.status = 200
    THEN [b EXCEPT !.limitInfo = response, !.isLimited = response.remaining <= 0]
    ELSE b

\* fetchLimitInfo, run on mount and by the interval: the request is sent.
\* The interval is a minute: the previous poll has been answered by then.
BtnFetch(s) ==
    /\ \A r \in Slots : issuer[r] # "poll"
    /\ Send(s)
    /\ issuer' = [issuer EXCEPT ![s] = "poll"]
    /\ UNCHANGED <<btn, acted>>

\* handleClick: nothing when limited or loading; else the action, and when
\* it has not thrown the request for the limits
BtnClick(s, thrown) ==
    /\ ~btn.isLimited /\ ~btn.isLoading
    /\ acted' = TRUE
    /\ IF thrown
       THEN /\ UNCHANGED <<btn, issuer>>
            /\ UNCHANGED rlVars
            /\ UNCHANGED <<scVars, liveVars, sumVars, chVars, postVars, pipeVars, srvVars>>
       ELSE /\ Send(s)
            /\ issuer' = [issuer EXCEPT ![s] = "click"]
            /\ btn' = [btn EXCEPT !.isLoading = TRUE]

\* the response to the request of slot s arrives: GET has answered
BtnResponse(s) ==
    /\ GET(s) \/ GETThrows(s)
    /\ btn' = [AfterResponse(btn, last'.response) EXCEPT
                  !.isLoading = IF issuer[s] = "click" THEN FALSE ELSE @]
    /\ issuer' = [issuer EXCEPT ![s] = "none"]
    /\ UNCHANGED acted

ButtonNext ==
    \/ \E s \in Slots : BtnFetch(s)
    \/ \E s \in Slots, thrown \in BOOLEAN : BtnClick(s, thrown)
    \/ \E s \in Slots : BtnResponse(s)
    \/ StoreFlips /\ UNCHANGED btnVars
    \/ Advance /\ UNCHANGED btnVars

(***************************************************************************)
(* Part 10. The readability score: assessReadabilityLevel and              *)
(* countSyllables.  A number is a fraction num / den of integers; den = 0  *)
(* is what a division by zero leaves (Infinity or NaN).                    *)
(***************************************************************************)

MaxText == 4           \* characters of the assessed text

Vowels == {"a", "e", "i", "o", "u", "y"}     \* [aeiouy]
Zero == [num |-> 0, den |-> 1]

\* the texts assessed: a vowel, a capital vowel, a consonant, a blank, a full stop
ReadTexts == UNION {[1..n -> {"a", "U", "b", " ", "."}] : n \in 0..MaxText}

\* text.toLowerCase()
ToLowerCase(t) ==
    [i \in 1..Len(t) |-> CASE t[i] = "A" -> "a" [] t[i] = "U" -> "u" [] OTHER -> t[i]]

\* text.split(/[seps]+/): the pieces between the runs of separators, the
\* empty piece before a leading run and after a trailing run included
split(t, seps) ==
    LET RECURSIVE SplitAt(_, _)
        SplitAt(i, piece) ==
            IF i > Len(t) THEN <<piece>>
            ELSE IF t[i] \notin seps THEN SplitAt(i + 1, Append(piece, t[i]))
            ELSE IF i > 1 /\ t[i - 1] \in seps THEN SplitAt(i + 1, piece)
            ELSE <<piece>> \o SplitAt(i + 1, <<>>)
    IN  SplitAt(1, <<>>)

\* countSyllables(text): per word the matches of /[aeiouy]{1,2}/g (from the
\* left, each match one vowel and the vowel after it if there is one), and 1
\* for a non-empty word without a match
countSyllables(t) ==
    LET words == split(ToLowerCase(t), {" ", NL})
        RECURSIVE Matches(_, _)
        Matches(w, i) ==
            IF i > Len(w) THEN 0
            ELSE IF w[i] \notin Vowels THEN Matches(w, i + 1)
            ELSE IF i < Len(w) /\ w[i + 1] \in Vowels THEN 1 + Matches(w, i + 2)
            ELSE 1 + Matches(w, i + 1)
        RECURSIVE Count(_)
        Count(k) ==
            IF k > Len(words) THEN 0
            ELSE LET m == Matches(words[k], 1)
                 IN  m + (IF m = 0 /\ Len(words[k]) > 0 THEN 1 ELSE 0) + Count(k + 1)
    IN  Count(1)

\* The function without its guard.
assessReadabilityLevel_Unguarded(t) ==
    LET W == Len(SelectSeq(split(t, {" ", NL}), LAMBDA w : Len(w) > 0))
        S == Len(SelectSeq(split(t, {".", "!", "?"}), LAMBDA x : Len(x) > 0))
        num == 39 * W * W + 1180 * countSyllables(t) * S - 1559 * S * W
        den == 100 * S * W
    IN  [done |-> TRUE,
         value |-> IF den # 0 /\ num < 0 THEN Zero ELSE [num |-> num, den |-> den],
         dividedBy |-> {S, W}]

\* assessReadabilityLevel(text).  With W words, S sentences and Y syllables
\* 0.39 * W / S + 11.8 * Y / W - 15.59 is num / den below; Math.max(0, .)
\* brings a negative number to 0.
assessReadabilityLevel(t) ==
    LET W == Len(SelectSeq(split(t, {" ", NL}), LAMBDA w : Len(w) > 0))
        S == Len(SelectSeq(split(t, {".", "!", "?"}), LAMBDA x : Len(x) > 0))
        num == 39 * W * W + 1180 * countSyllables(t) * S - 1559 * S * W
        den == 100 * S * W
    IN  IF S = 0 \/ W = 0 THEN [done |-> TRUE, value |-> Zero, dividedBy |-> {}]
        ELSE [done |-> TRUE,
              value |-> IF den # 0 /\ num < 0 THEN Zero ELSE [num |-> num, den |-> den],
              dividedBy |-> {S, W}]

\* a text to be assessed
ReadInputs ==
    /\ text \in ReadTexts
    /\ maxSize = 1
    /\ returned = <<>>
    /\ chunked = FALSE
    /\ score = [done |-> FALSE]
    /\ syllables = -1

Assess ==
    /\ ~score.done
    /\ score' = assessReadabilityLevel(text)
    /\ UNCHANGED <<text, maxSize, returned, chunked, syllables>>
    /\ UNCHANGED <<rlVars, scVars, liveVars, sumVars, postVars, pipeVars, srvVars, btnVars>>

CountSyllables ==
    /\ syllables = -1
    /\ syllables' = countSyllables(text)
    /\ UNCHANGED <<text, maxSize, returned, chunked, score>>
    /\ UNCHANGED <<rlVars, scVars, liveVars, sumVars, postVars, pipeVars, srvVars, btnVars>>

ReadNext == Assess \/ CountSyllables

(***************************************************************************)
(* Specifications                                                          *)
(***************************************************************************)

\* the parts a specification leaves alone
RLIdle == RLInit /\ hdr = [xff |-> "", xreal |-> ""]
SCIdle == SCInit /\ client = "tab"

\* the rate limiter and the limits endpoint
InitRL == RLInit /\ SCIdle /\ LiveInit /\ SumInit /\ ChunkInit /\ PostIdle /\ PipeInit /\ SrvInit /\ BtnInit
SpecRL == InitRL /\ [][RLNext]_vars
\* the same, with the middleware
SpecMW == InitRL /\ [][MWNext]_vars

\* the stream clients, for every message the stream can carry
InitClient == SCInit /\ RLIdle /\ LiveInit /\ SumInit /\ ChunkInit /\ PostIdle /\ PipeInit /\ SrvInit /\ BtnInit
SpecClient == InitClient /\ [][SCNext]_vars
\* one subscription of a stream client, and what it has received
SpecStream == InitClient /\ [][StreamNext]_vars

\* one subscription of a stream client to the stream of a job, the transport
\* dropping at most MaxDrops times; the event loop runs the handlers and the
\* timeouts that are due, and the server keeps pushing
SpecLive ==
    /\ InitClient
    /\ [][LiveNext]_vars
    /\ WF_vars(Subscribe /\ UNCHANGED srvVars)
    /\ WF_vars(\E s \in Subs : OnOpen(s) /\ UNCHANGED srvVars)
    /\ WF_vars(\E s \in Subs : Push(s) /\ UNCHANGED srvVars)
    /\ WF_vars(\E s \in Subs : TimerFires(s) /\ UNCHANGED srvVars)
    /\ WF_vars(Tick /\ UNCHANGED srvVars)

\* the same subscription with the server's side of its connections
InitServe == SCInit /\ RLIdle /\ LiveInit /\ SumInit /\ ChunkInit /\ PostIdle /\ PipeInit /\ SrvInit /\ BtnInit
SpecServe ==
    /\ InitServe
    /\ [][ServeNext]_vars
    /\ WF_vars(Subscribe /\ UNCHANGED srvVars)
    /\ WF_vars(\E s \in Subs : ServerAccept(s))
    /\ WF_vars(\E s \in Subs : ServerPush(s))
    /\ WF_vars(\E s \in Subs : TimerFires(s) /\ UNCHANGED srvVars)
    /\ WF_vars(Tick /\ UNCHANGED srvVars)

\* SummaryTab and its task-status stream
InitSummary == SumInit /\ RLIdle /\ SCIdle /\ LiveInit /\ ChunkInit /\ PostIdle /\ PipeInit /\ SrvInit /\ BtnInit
SpecSummary == InitSummary /\ [][SumNext]_vars

\* splitContentIntoChunks, for every content of up to MaxLen characters
InitChunk == ChunkInputs /\ RLIdle /\ SCIdle /\ LiveInit /\ SumInit /\ PostIdle /\ PipeInit /\ SrvInit /\ BtnInit
SpecChunk == InitChunk /\ [][ChunkNext]_vars

\* the submission handlers, for every submission
InitPost == PostInit /\ RLIdle /\ SCIdle /\ LiveInit /\ SumInit /\ ChunkInit /\ PipeInit /\ SrvInit /\ BtnInit
SpecPost == InitPost /\ [][PostNext]_vars

\* the pipeline worker of one job, and the task store called directly
InitPipe == PipeInit /\ RLIdle /\ SCIdle /\ LiveInit /\ SumInit /\ ChunkInit /\ PostIdle /\ SrvInit /\ BtnInit
SpecPipeline == InitPipe /\ [][PipeNext]_vars
InitStore == PipeInit /\ RLIdle /\ SCIdle /\ LiveInit /\ SumInit /\ ChunkInit /\ PostIdle /\ SrvInit /\ BtnInit
SpecStore == InitStore /\ [][StoreNext]_vars

\* texts given to assessReadabilityLevel and countSyllables
InitRead == ReadInputs /\ RLIdle /\ SCIdle /\ LiveInit /\ SumInit /\ PostIdle /\ PipeInit /\ SrvInit /\ BtnInit
SpecRead == InitRead /\ [][ReadNext]_vars

\* a mounted LimitedActionButton and the limits endpoint
InitButton == RLIdle /\ SCIdle /\ LiveInit /\ SumInit /\ ChunkInit /\ PostIdle /\ PipeInit /\ SrvInit /\ BtnInit
SpecButton == InitButton /\ [][ButtonNext]_vars

(***************************************************************************)
(* Claims about the rate limiter                                           *)
(***************************************************************************)

\* C1: of the N checkRateLimit calls that carry one visitor identity in one
\* window, exactly min(N, LIMIT) are admitted (the others are rejected),
\* whatever the order in which the concurrent requests are handled.
C1_ExactlyMinAdmitted ==
    \A k \in DOMAIN tally : tally[k].admitted = Min(tally[k].calls, LIMIT)

\* C1 witness: LIMIT + 1 calls of one identity in one window, the last of
\* them sent while another request was in flight, and rejected.
C1_Witness ==
    /\ last.kind = "ok" /\ last.slot > 1 /\ ~last.result.success
    /\ \E k \in DOMAIN tally : tally[k].calls = LIMIT + 1 /\ tally[k].admitted = LIMIT

\* C2 (as claimed): a request to a rate-limited path by an identity that is
\* over its limit (and is not sent to the login page) is answered 429 and
\* starts no job.
C2_OverLimitRejected ==
    (mw.path \in RATE_LIMITED_PATHS /\ mw.over /\ mw.status # 307) =>
        (mw.status = 429 /\ ~mw.jobCreated)

\* C3 (as claimed): the check that follows LIMIT admissions of an identity in
\* one window is a rejection with remaining = 0 and a positive resetIn.
C3_RejectedWithPositiveResetIn ==
    (last.kind = "ok" /\ last.prior = LIMIT) =>
        /\ ~last.result.success
        /\ last.response.remaining = 0
        /\ last.response.resetIn > 0

(***************************************************************************)
(* Claims about the progress stream clients                                *)
(***************************************************************************)

\* C4 (as claimed): the combined text SimplifiedTab presents is the text of
\* every chunk index received so far, in ascending index order, joined by the
\* paragraph separator, also when the indices came in separate messages.
C4_CombinedIsAllReceived ==
    (client = "tab" /\ DOMAIN received # {}) =>
        getCombinedSimplifiedContent(tab.simplifiedChunks)
            = Join(OrderedChunks(received, DOMAIN received))

\* the step is a transport error of subscription s: its live connection is
\* closed, by neither a terminal message nor the cleanup
ErrorStep(s) ==
    es[s] \in Live /\ es'[s] = "closed" /\ ~termSeen'[s] /\ torn'[s] = torn[s]

\* C5: on every transport error the client closes the connection and sets a
\* 3-second timeout; while the timeout runs no connection is open, and a new
\* connection is opened exactly when it has run out; this holds for every
\* error, however many came before.
C5_ReconnectAfterBackoff ==
    [][\A s \in Subs :
        /\ ErrorStep(s) => (es'[s] = "closed" /\ timer'[s] = RECONNECT_MS)
        /\ timer[s] > 0 => (es'[s] = "closed" /\ timer'[s] \in {timer[s], timer[s] - TICK_MS})
        /\ (es[s] = "closed" /\ es'[s] # "closed") =>
               (timer[s] = 0 /\ timer'[s] = NoTimer /\ es'[s] = "connecting")
        /\ (es'[s] = "closed" /\ ~termSeen'[s] /\ ~torn'[s]) => timer'[s] # NoTimer
      ]_vars

\* C5 witness: after a second transport error and a second backoff, the
\* subscription opens its third connection.
C5_Witness ==
    drops >= 2 /\ nsub = 1 /\ es[1] = "connecting" /\ timer[1] = NoTimer

\* C7 (as claimed): once the cleanup of a subscription has run, no connection
\* of that subscription is open or being opened.
C7_NoConnectionAfterTeardown ==
    \A s \in Subs : torn[s] => es[s] \notin Live

\* C9 (as claimed): after the current subscription has handled a message with
\* completed or error, and while it stays the current one, its stream stays
\* closed, no reconnect is pending, and the chunk results and terminal flags
\* of the client do not change.
C9_FrozenAfterTerminal ==
    [][(nsub > 0 /\ termSeen[nsub] /\ ~torn[nsub] /\ ~torn'[nsub]) =>
           /\ es'[nsub] = "closed" /\ timer'[nsub] = NoTimer
           /\ tab'.simplifiedChunks = tab.simplifiedChunks
           /\ tab'.streamingComplete = tab.streamingComplete
           /\ tab'.streamingError = tab.streamingError
           /\ hook'.progress = hook.progress
           /\ hook'.loading = hook.loading
      ]_vars

\* C10: handling a not_found message changes nothing of the client's state
\* and leaves the connection open, with no reconnect pending.
C10_NotFoundIsNoOp ==
    [][\A s \in Subs :
        (OnMessage(s, NotFoundMsg) /\ Record(NotFoundMsg)) =>
            /\ tab' = tab /\ hook' = hook
            /\ es'[s] = "open" /\ timer' = timer /\ termSeen' = termSeen
      ]_vars

\* C10 witness: a not_found message was handled, the connection is still
\* open, and a later snapshot has been received on it.
C10_Witness ==
    sawNotFound /\ nsub = 1 /\ es[1] = "open" /\ DOMAIN received # {}

\* the client has handled the terminal message and shows what the client
\* whose connection never dropped shows
ClientReached ==
    nsub = 1 /\ es[1] = "closed" /\ termSeen[1] /\ View = unbroken

\* C6: once the job is terminal, and the transport having dropped at most
\* MaxDrops times, the client eventually has handled the terminal message
\* and is in the state of a client whose connection never dropped: the same
\* chunk results, progress and terminal flags.
C6_EventuallyUnbrokenState == JobTerminal ~> ClientReached

\* C6 witness: the transport dropped twice while the job ran to completion,
\* and the client is in the unbroken client's final state.
C6_Witness ==
    drops >= 2 /\ job.completed /\ ClientReached /\ received = job.chunks

\* C8 (as claimed, for the task-status stream): SummaryTab is in its
\* 'failed to generate' state only if the stream of the task carried a message
\* with the task's error or with status FAILURE.
C8_FailedOnlyOnFailureMessage ==
    sum.summaryError = GENERATE_FAILED => failHeard

\* C11 (as claimed): once SimplifiedTab has handled a message carrying the
\* job's error, it does not report the job as still processing.
C11_FailedIsNotProcessing ==
    (client = "tab" /\ nsub = 1 /\ termSeen[1] /\ tab.streamingError = JobError
       /\ ~tab.streamingComplete)
        => ~Render(tab, fileId).processing

(***************************************************************************)
(* Claims about the chunker                                                *)
(***************************************************************************)

\* C12 (as claimed): every chunk returned is at most maxChunkSize characters
\* long, separators included, unless it is one single paragraph.
C12_ChunksWithinMaxSize ==
    chunked => \A j \in 1..Len(returned) :
                   Len(returned[j]) <= maxSize \/ Len(Paragraphs(returned[j])) = 1

\* C13 (as claimed): the chunks joined by the paragraph separator and split
\* again on blank lines are the paragraphs of the content.
C13_ChunksReconstructParagraphs ==
    chunked => Paragraphs(JoinChunks(returned)) = Paragraphs(text)

\* the paragraphs of a sequence of paragraphs or chunks that are longer than
\* maxChunkSize, in order
Oversized(ps) ==
    LET Big(p) == Len(p) > maxSize IN SelectSeq(ps, Big)

\* the chunks that are one paragraph longer than maxChunkSize, in order
OversizedChunks ==
    LET Alone(c) == Len(c) > maxSize /\ Paragraphs(c) = <<c>> IN SelectSeq(returned, Alone)

\* C14: a chunk that holds a paragraph longer than maxChunkSize is that
\* paragraph and nothing else, and the oversized paragraphs of the content
\* are, in order, the oversized single-paragraph chunks: none is split,
\* merged or dropped, wherever it stands.
C14_OversizedParagraphAlone ==
    chunked =>
        /\ \A j \in 1..Len(returned) :
              Oversized(Paragraphs(returned[j])) # <<>> => Paragraphs(returned[j]) = <<returned[j]>>
        /\ Oversized(Paragraphs(text)) = OversizedChunks

\* C14 witness: a content of three paragraphs, two oversized ones next to each
\* other, the first and the middle one, has been chunked.
C14_Witness ==
    /\ chunked
    /\ Len(Paragraphs(text)) = 3
    /\ Len(Paragraphs(text)[1]) > maxSize
    /\ Len(Paragraphs(text)[2]) > maxSize
    /\ Len(Paragraphs(text)[3]) \in 1..maxSize
    /\ Len(returned) = 3

\* C16 (as claimed): all the requests of the browser, from first contact on,
\* were given the same identity string by getVisitorId, so that they are
\* counted under one identity.
C16_OneIdentityPerBrowser ==
    \A k1 \in DOMAIN tally, k2 \in DOMAIN tally : k1[1] = k2[1]

\* C28 (as claimed): the chunks and the progress SimplifiedTab shows for its
\* fileId were set by messages of that file's own stream.
C28_ShownIsOfOwnStream ==
    (client = "tab" /\ mounted /\ fileId # NoFile) =>
        /\ tab.simplifiedChunks # NoChunks => origin.chunks = fileId
        /\ tab.progress # 0 => origin.progress = fileId

\* C29 (as claimed): at most one progress-stream connection of the component
\* is open at any moment.
C29_AtMostOneOpenConnection ==
    Cardinality({s \in Subs : es[s] = "open"}) <= 1

\* C30 (as claimed): once a task's stream has reported SUCCESS, FAILURE or a
\* connection error, the auto-start effect (the one that runs when the summary
\* fetch settles, not the Retry button) starts no further summarization.
C30_NoAutoRestartAfterReport ==
    [][(tsrc = "closed" /\ swr = "loading" /\ call = "none") => call' = "none"]_vars

\* C21: the server has closed a stream from its side only after it pushed a
\* snapshot with completed or error on it (so never while the job is unknown,
\* for which it pushes not_found); and a subscriber that was told not_found,
\* the job having been created and become terminal since, eventually has
\* handled the terminal snapshot and holds the job's results.
C21_ServerClosesOnlyAfterTerminal ==
    /\ [](\A s \in Subs : srv[s] = "done" => pushedTerm[s] /\ job.exists)
    /\ (sawNotFound /\ JobTerminal) ~> ClientReached

\* a subscriber connected before the job was created and was pushed not_found;
\* the job completed, and the server closed the stream after the client had
\* received all the results
C21_Witness ==
    /\ sawNotFound /\ job.completed /\ srv[1] = "done"
    /\ ClientReached /\ received = job.chunks

NonEmptyParagraphs(t) == {i \in 1..Len(Paragraphs(t)) : Paragraphs(t)[i] # <<>>}

\* C26: no chunk splitContentIntoChunks returns is empty; the empty content
\* gives no chunk; there are at most as many chunks as non-empty paragraphs.
C26_NoEmptyChunk ==
    chunked =>
        /\ \A j \in 1..Len(returned) : returned[j] # <<>>
        /\ text = <<>> => returned = <<>>
        /\ Len(returned) <= Cardinality(NonEmptyParagraphs(text))

\* a content with an empty paragraph among others was split into several chunks
C26_Witness ==
    /\ chunked /\ Len(returned) >= 2
    /\ \E i \in 1..Len(Paragraphs(text)) : Paragraphs(text)[i] = <<>>

(***************************************************************************)
(* Claims about the submission handlers                                    *)
(***************************************************************************)

\* C15 (as claimed): a submission whose content is missing or empty is
\* answered with a validation error and never with success, and nothing has
\* been done before the answer: no chunking, no external call, no store write.
C15_EmptyContentRejectedFirst ==
    (answer # NoAnswer /\ NoContent(submission)) =>
        /\ answer.kind = "validation" /\ ~answer.success
        /\ effects = <<>>

(***************************************************************************)
(* Claims about the pipeline and the task store                            *)
(***************************************************************************)

AllProcessed == jobState.processed_chunks = jobState.total_chunks /\ jobState.error = NoError

\* C17 (as claimed): in every state of a job, completed is true exactly when
\* processed_chunks equals total_chunks and no error is set; completed and
\* error are never both set.
C17_CompletedExactlyWhenAllProcessed ==
    jobState.exists =>
        /\ jobState.completed <=> AllProcessed
        /\ ~(jobState.completed /\ jobState.error # NoError)

\* C17 (as amended): completed is true only when processed_chunks equals
\* total_chunks and no error is set, and exactly then in every state but the
\* one in which the pipeline, still PROCESSING, has recorded the last chunk
\* and not yet called mark_completed; completed and error are never both set.
C17_CompletedOnlyWhenAllProcessed ==
    jobState.exists =>
        /\ jobState.completed => AllProcessed
        /\ stage # "PROCESSING" => (jobState.completed <=> AllProcessed)
        /\ ~(jobState.completed /\ jobState.error # NoError)

\* a job of several chunks has completed
C17_Witness ==
    jobState.completed /\ jobState.total_chunks >= 2 /\ stage = "COMPLETED"

Exhausted == {i \in IndicesOf(jobState) :
                 calls[i].status = "exhausted" /\ calls[i].attempts = MaxAttempts}

\* the job is FAILED with its error set, not completed, and every result
\* recorded before the failure still in its state
FailedKeepsResults ==
    stage = "FAILED" =>
        /\ jobState.error # NoError /\ ~jobState.completed
        /\ \A i \in kept : i \in DOMAIN jobState.chunk_results
                           /\ jobState.chunk_results[i] = ResultOf(i)

\* C18 (as claimed): no chunk call is attempted more than 3 times; the job is
\* FAILED only when some chunk has exhausted its attempts, and then error is
\* set, completed is false and the results already recorded are retained.
C18_FailedOnlyAfterRetries ==
    /\ \A i \in AllIndices : calls[i].attempts <= MaxAttempts
    /\ stage = "FAILED" => Exhausted # {}
    /\ FailedKeepsResults

\* C18 (as amended): the same, the job being FAILED only when some chunk has
\* exhausted its attempts or the chunker has thrown.
C18_FailedAfterRetriesOrChunking ==
    /\ \A i \in AllIndices : calls[i].attempts <= MaxAttempts
    /\ stage = "FAILED" => (Exhausted # {} \/ jobState.error = ChunkingError)
    /\ FailedKeepsResults

\* a chunk has exhausted its attempts after another chunk's result was recorded
C18_Witness ==
    stage = "FAILED" /\ Exhausted # {} /\ kept # {}

\* C19: the pipeline's state never moves backward and never leaves COMPLETED
\* or FAILED; mark_error has been called once when the job is FAILED and never
\* otherwise; once FAILED, the job's state in the store does not change any
\* more, whatever the calls still in flight do.
C19_ForwardOnlyFailedTerminal ==
    [][/\ Rank(stage') >= Rank(stage)
       /\ stage \in {"COMPLETED", "FAILED"} => stage' = stage
       /\ stage = "FAILED" =>
              /\ jobState' = jobState
              /\ recordCalls' = recordCalls
              /\ markErrors' = markErrors
       /\ markErrors' = (IF stage' = "FAILED" THEN 1 ELSE 0)]_vars

\* a call in flight when the job failed has returned its text since, and the
\* text was not recorded
C19_Witness ==
    /\ stage = "FAILED"
    /\ \E i \in IndicesOf(jobState) : calls[i].status = "done" /\ i \notin kept

\* C20: whatever record_chunk calls were made, replays included,
\* processed_chunks is the number of distinct indices recorded and is at most
\* total_chunks.
C20_ProcessedCountsDistinctIndices ==
    jobState.exists =>
        /\ jobState.processed_chunks = Cardinality(kept)
        /\ DOMAIN jobState.chunk_results = kept
        /\ jobState.processed_chunks <= jobState.total_chunks

\* every chunk of a job of several chunks was recorded, one of them again
C20_Witness ==
    /\ jobState.total_chunks >= 2
    /\ kept = IndicesOf(jobState)
    /\ recordCalls > Cardinality(kept)

\* the calls the handler made for a chunk, in the order it made them
IsChunkCall(e) == e.chunk > 0
ChunkCalls == SelectSeq(effects, IsChunkCall)

\* the chunks of the submission, and the first of them whose processing
\* throws (0: none)
ChunksOf(r) == splitContentIntoChunks(r.content, DEFAULT_MAX_CHUNK_SIZE)
FirstFailing(r) ==
    IF ~r.qdrantUp /\ ChunksOf(r) # <<>> THEN 1
    ELSE IF r.failAt \in 1..Len(ChunksOf(r)) THEN r.failAt
    ELSE 0

\* C24: the storing handler processes the chunks one at a time in index
\* order (embedding, then upsert); when the processing of chunk k throws, the
\* answer is a failure and not a success, no call was made for a chunk after
\* k, and the chunks before k are stored, each by an upsert that returned.
C24_FailedChunkFailsRequest ==
    (answer # NoAnswer /\ submission.route = "store" /\ submission.hasContent) =>
        LET k == FirstFailing(submission)
            Stored == {ChunkCalls[j].chunk : j \in {x \in 1..Len(ChunkCalls) :
                          ChunkCalls[x].call = "upsert" /\ ChunkCalls[x].ok}}
        IN  /\ \A j \in 1..Len(ChunkCalls) :
                   /\ ChunkCalls[j].chunk = (j + 1) \div 2
                   /\ ChunkCalls[j].call = (IF j % 2 = 1 THEN "embedding" ELSE "upsert")
            /\ k = 0 => /\ answer.success
                        /\ Stored = 1..Len(ChunksOf(submission))
            /\ k > 0 => /\ ~answer.success /\ answer.status = 500
                        /\ \A j \in 1..Len(ChunkCalls) : ChunkCalls[j].chunk <= k
                        /\ Stored = 1..(k - 1)

\* the upsert of the third of three chunks threw after two chunks were stored
C24_Witness ==
    /\ answer # NoAnswer /\ submission.route = "store"
    /\ Len(ChunksOf(submission)) = 3
    /\ submission.qdrantUp /\ submission.failAt = 3 /\ submission.failIn = "upsert"
    /\ Len(ChunkCalls) = 6


(***************************************************************************)
(* Claims about LimitedActionButton                                        *)
(***************************************************************************)

\* C25 (as claimed): when the check of the limits has failed because the
\* store could not be reached, the endpoint has answered with an error and
\* the button is not limited, whatever it had been told before.
C25_FailOpenInEveryState ==
    last.kind = "thrown" =>
        /\ last.response.status = 500
        /\ ~btn.isLimited

\* C27: every answered GET /api/limits is itself counted in the caller's
\* window: it reports the remaining value left after the admissions the
\* window had before it and one more for itself, down to 0; and the button
\* holds that answer and is limited exactly when the remaining value is 0,
\* whether or not the gated action was ever performed.
C27_StatusCheckConsumesAdmission ==
    last.kind = "ok" =>
        /\ last.response.remaining = Max(0, LIMIT - last.prior - 1)
        /\ btn.limitInfo = last.response
        /\ btn.isLimited = (last.prior >= LIMIT - 1)

\* C27 witness: a mounted button whose action was never performed is limited
\* by the answer to its own LIMIT-th status check.
C27_Witness ==
    /\ ~acted
    /\ btn.isLimited
    /\ last.kind = "ok" /\ last.prior = LIMIT - 1
    /\ last.response.remaining = 0

(***************************************************************************)
(* Claims about the readability score                                      *)
(***************************************************************************)

\* C22: the score assessReadabilityLevel returned is a number that is not
\* negative, no division it made was by zero, and for a text without a word
\* (nothing but whitespace) or without a sentence (nothing but sentence
\* terminators) it returned 0 and made no division.
C22_ScoreDefinedAndNotNegative ==
    score.done =>
        /\ score.value.den > 0 /\ score.value.num >= 0
        /\ 0 \notin score.dividedBy
        /\ (\/ \A i \in 1..Len(text) : text[i] \in {" ", NL}
            \/ \A i \in 1..Len(text) : text[i] \in {".", "!", "?"})
                => (score.value = Zero /\ score.dividedBy = {})

\* C22 witness: a text of sentence terminators only (a word, no sentence)
\* was assessed, with the sentinel 0 as its score.
C22_Witness ==
    /\ score.done /\ score.value = Zero
    /\ Len(text) > 0 /\ \A i \in 1..Len(text) : text[i] = "."

\* a vowel letter, of either case
IsVowelLetter(c) == c \in Vowels \/ c \in {"A", "E", "I", "O", "U", "Y"}

\* the maximal runs of vowel letters of the text, and its words (maximal runs
\* of characters other than whitespace) without a vowel letter
VowelRuns(t) ==
    Cardinality({i \in 1..Len(t) :
        IsVowelLetter(t[i]) /\ (i = 1 \/ ~IsVowelLetter(t[i - 1]))})
VowellessWords(t) ==
    Cardinality({i \in 1..Len(t) :
        /\ t[i] # " " /\ (i = 1 \/ t[i - 1] = " ")
        /\ \A j \in i..Len(t) :
              (\A k \in i..j : t[k] # " ") => ~IsVowelLetter(t[j])})

\* C23 (as claimed): countSyllables has counted one syllable for each maximal
\* run of vowel letters of the text, whatever the run's length, and one for
\* each non-empty word without a vowel letter.
C23_OneSyllablePerVowelRun ==
    syllables # -1 => syllables = VowelRuns(text) + VowellessWords(text)

=========================================================================
